---- MODULE Spec2Model ----
(***************************************************************************)
(* The word counter of src/app/page.tsx: the text normalizer, the matcher  *)
(* countWord, and the Page component's recognition session (React state,   *)
(* the recognizer's handlers, the restart timer).                          *)
(*                                                                         *)
(* A text is a sequence of characters.  An ASCII character is the string   *)
(* of that character; any other character is named by its code point,      *)
(* "U0431" for U+0431.                                                     *)
(*                                                                         *)
(* A handler and the renders and effects it causes are one step: the       *)
(* recompute effect runs before the next event is handled.  The            *)
(* recognizer is the Web Speech API's: start() throws InvalidStateError    *)
(* unless the recognizer is idle, stop() and an error are followed by      *)
(* end, results that are not final come only with interimResults, and a   *)
(* result list holds the final results before the interim ones.            *)
(* The language select only sets rec.lang and is left out.                 *)
(*                                                                         *)
(* normalize and countWord are also checked on their own, called on texts  *)
(* and targets the session never sees (NormSpec, CountSpec).               *)
(***************************************************************************)
EXTENDS Integers, Sequences, FiniteSets, TLC

\* ---------------------------------------------------------------------
\* Character classes (Unicode properties used by normalize and by trim)
\* ---------------------------------------------------------------------

LatinLower ==
    {"a", "b", "c", "d", "e", "f", "g", "h", "i", "j", "k", "l", "m",
     "n", "o", "p", "r", "s", "t", "u", "v", "z"}

LatinUpper ==
    {"A", "B", "C", "D", "E", "F", "G", "H", "I", "J", "K", "L", "M",
     "N", "O", "P", "R", "S", "T", "U", "V", "Z"}

\* the table of cyrToLat: Serbian Cyrillic letter -> Latin letters
cyrMap ==
    ("U0410" :> <<"A">>) @@ ("U0411" :> <<"B">>) @@ ("U0412" :> <<"V">>) @@
    ("U0413" :> <<"G">>) @@ ("U0414" :> <<"D">>) @@ ("U0402" :> <<"U0110">>) @@
    ("U0415" :> <<"E">>) @@ ("U0416" :> <<"U017D">>) @@ ("U0417" :> <<"Z">>) @@
    ("U0418" :> <<"I">>) @@ ("U0408" :> <<"J">>) @@ ("U041A" :> <<"K">>) @@
    ("U041B" :> <<"L">>) @@ ("U0409" :> <<"L", "j">>) @@ ("U041C" :> <<"M">>) @@
    ("U041D" :> <<"N">>) @@ ("U040A" :> <<"N", "j">>) @@ ("U041E" :> <<"O">>) @@
    ("U041F" :> <<"P">>) @@ ("U0420" :> <<"R">>) @@ ("U0421" :> <<"S">>) @@
    ("U0422" :> <<"T">>) @@ ("U040B" :> <<"U0106">>) @@ ("U0423" :> <<"U">>) @@
    ("U0424" :> <<"F">>) @@ ("U0425" :> <<"H">>) @@ ("U0426" :> <<"C">>) @@
    ("U0427" :> <<"U010C">>) @@ ("U040F" :> <<"D", "U017E">>) @@ ("U0428" :> <<"U0160">>) @@
    ("U0430" :> <<"a">>) @@ ("U0431" :> <<"b">>) @@ ("U0432" :> <<"v">>) @@
    ("U0433" :> <<"g">>) @@ ("U0434" :> <<"d">>) @@ ("U0452" :> <<"U0111">>) @@
    ("U0435" :> <<"e">>) @@ ("U0436" :> <<"U017E">>) @@ ("U0437" :> <<"z">>) @@
    ("U0438" :> <<"i">>) @@ ("U0458" :> <<"j">>) @@ ("U043A" :> <<"k">>) @@
    ("U043B" :> <<"l">>) @@ ("U0459" :> <<"l", "j">>) @@ ("U043C" :> <<"m">>) @@
    ("U043D" :> <<"n">>) @@ ("U045A" :> <<"n", "j">>) @@ ("U043E" :> <<"o">>) @@
    ("U043F" :> <<"p">>) @@ ("U0440" :> <<"r">>) @@ ("U0441" :> <<"s">>) @@
    ("U0442" :> <<"t">>) @@ ("U045B" :> <<"U0107">>) @@ ("U0443" :> <<"u">>) @@
    ("U0444" :> <<"f">>) @@ ("U0445" :> <<"h">>) @@ ("U0446" :> <<"c">>) @@
    ("U0447" :> <<"U010D">>) @@ ("U045F" :> <<"d", "U017E">>) @@ ("U0448" :> <<"U0161">>)

\* /[\u0400-\u04FF]/: the Cyrillic block.  Beside the letters of the table
\* the model has U+042F, U+044F (no canonical decomposition), U+0419,
\* U+0439 (letter I + breve) and U+0451 (letter IE + diaeresis).
CyrillicBlock ==
    DOMAIN cyrMap \cup {"U042F", "U044F", "U0419", "U0439", "U0451"}

\* Latin letters with a diacritic (the table's targets) and D with stroke
LatinAccented ==
    {"U0110", "U0111", "U017D", "U017E", "U0106", "U0107", "U010C",
     "U010D", "U0160", "U0161"}

\* combining marks U+0300 grave, U+0301 acute, U+0306 breve, U+0308
\* diaeresis, U+030C caron, and the spacing circumflex: \p{Diacritic}
Diacritic == {"U0300", "U0301", "U0306", "U0308", "U030C", "^"}

\* \p{L}
Letter == LatinLower \cup LatinUpper \cup LatinAccented \cup CyrillicBlock

\* \p{N}
Digit == {"0", "1", "2", "3", "4", "5", "6", "7", "8", "9"}

\* \s, also the characters String.prototype.trim removes:
\* space, tab, line feed, no-break space
WhiteSpace == {" ", "TAB", "LF", "U00A0"}

\* ---------------------------------------------------------------------
\* Sequence helpers
\* ---------------------------------------------------------------------

RECURSIVE flatten(_)
\* the string made of the replacements ss[1], ss[2], ... that
\* String.prototype.replace puts in the place of each character
flatten(ss) ==
    IF ss = <<>> THEN <<>> ELSE Head(ss) \o flatten(Tail(ss))

RECURSIVE trimStart(_)
trimStart(s) ==
    IF s # <<>> /\ Head(s) \in WhiteSpace THEN trimStart(Tail(s)) ELSE s

RECURSIVE trimEnd(_)
trimEnd(s) ==
    IF s # <<>> /\ s[Len(s)] \in WhiteSpace
    THEN trimEnd(SubSeq(s, 1, Len(s) - 1))
    ELSE s

\* String.prototype.trim
trim(s) == trimEnd(trimStart(s))

isPrefix(s, t) == Len(s) <= Len(t) /\ SubSeq(t, 1, Len(s)) = s

\* ---------------------------------------------------------------------
\* normalize
\* ---------------------------------------------------------------------

\* the keys of the table
cyrKeys == DOMAIN cyrMap

cyrToLatChar(ch) ==
    IF ch \in CyrillicBlock
    THEN (IF ch \in cyrKeys THEN cyrMap[ch] ELSE <<ch>>)
    ELSE <<ch>>

\* s.replace(/[\u0400-\u04FF]/g, (ch) => map[ch] ?? ch)
cyrToLat(s) == flatten([i \in DOMAIN s |-> cyrToLatChar(s[i])])

\* canonical decomposition of one character
nfdChar(ch) ==
    CASE ch = "U017D" -> <<"Z", "U030C">>
      [] ch = "U017E" -> <<"z", "U030C">>
      [] ch = "U0106" -> <<"C", "U0301">>
      [] ch = "U0107" -> <<"c", "U0301">>
      [] ch = "U010C" -> <<"C", "U030C">>
      [] ch = "U010D" -> <<"c", "U030C">>
      [] ch = "U0160" -> <<"S", "U030C">>
      [] ch = "U0161" -> <<"s", "U030C">>
      [] ch = "U0419" -> <<"U0418", "U0306">>
      [] ch = "U0439" -> <<"U0438", "U0306">>
      [] ch = "U0451" -> <<"U0435", "U0308">>
      [] OTHER -> <<ch>>

\* .normalize("NFD")
nfd(s) == flatten([i \in DOMAIN s |-> nfdChar(s[i])])

stripChar(ch) == IF ch \in Diacritic THEN <<>> ELSE <<ch>>

\* .replace(/\p{Diacritic}/gu, "")
stripDiacritics(s) == flatten([i \in DOMAIN s |-> stripChar(s[i])])

upperToLower ==
    ("A" :> "a") @@ ("B" :> "b") @@ ("C" :> "c") @@ ("D" :> "d") @@
    ("E" :> "e") @@ ("F" :> "f") @@ ("G" :> "g") @@ ("H" :> "h") @@
    ("I" :> "i") @@ ("J" :> "j") @@ ("K" :> "k") @@ ("L" :> "l") @@
    ("M" :> "m") @@ ("N" :> "n") @@ ("O" :> "o") @@ ("P" :> "p") @@
    ("R" :> "r") @@ ("S" :> "s") @@ ("T" :> "t") @@ ("U" :> "u") @@
    ("V" :> "v") @@ ("Z" :> "z") @@ ("U0110" :> "U0111") @@
    ("U0418" :> "U0438") @@ ("U0419" :> "U0439") @@ ("U042F" :> "U044F")

\* the characters that have a lower case
Uppercase == DOMAIN upperToLower

lowerChar(ch) ==
    IF ch \in Uppercase THEN <<upperToLower[ch]>> ELSE <<ch>>

\* .toLowerCase()
toLowerCase(s) == flatten([i \in DOMAIN s |-> lowerChar(s[i])])

\* \p{L}, \p{N}, \s and the apostrophe
WordChars == Letter \cup Digit \cup WhiteSpace \cup {"'"}

punctChar(ch) ==
    IF ch \in WordChars
    THEN <<ch>>
    ELSE <<" ">>

\* .replace(/[^\p{L}\p{N}\s']/gu, " ")
foldPunctuation(s) == flatten([i \in DOMAIN s |-> punctChar(s[i])])

RECURSIVE collapseSpaces(_)
\* .replace(/\s+/g, " ")
collapseSpaces(s) ==
    IF s = <<>> THEN <<>>
    ELSE IF Head(s) \in WhiteSpace
         THEN <<" ">> \o collapseSpaces(trimStart(s))
         ELSE <<Head(s)>> \o collapseSpaces(Tail(s))

normalize(s) ==
    trim(collapseSpaces(foldPunctuation(toLowerCase(
        stripDiacritics(nfd(cyrToLat(s)))))))

\* ---------------------------------------------------------------------
\* countWord
\* ---------------------------------------------------------------------

\* the characters escapeRegExp escapes: . * + ? ^ $ { } ( ) | [ ] \
RegExpMeta ==
    {".", "*", "+", "?", "^", "$", "{", "}", "(", ")", "|", "[", "]", "\\"}

escapeChar(ch) == IF ch \in RegExpMeta THEN <<"\\", ch>> ELSE <<ch>>

\* s.replace(/[.*+?^${}()|[\]\\]/g, "\\$&")
escapeRegExp(s) == flatten([i \in DOMAIN s |-> escapeChar(s[i])])

RECURSIVE literalAtoms(_)
\* The atoms new RegExp reads from an escaped source: a backslash and a
\* character is that character, a bare dot is any character, every other
\* character is itself.
literalAtoms(src) ==
    IF src = <<>> THEN <<>>
    ELSE IF Head(src) = "\\" /\ Len(src) >= 2
         THEN <<[any |-> FALSE, ch |-> src[2]]>>
                  \o literalAtoms(Tail(Tail(src)))
         ELSE <<[any |-> Head(src) = ".", ch |-> Head(src)]>>
                  \o literalAtoms(Tail(src))

\* the atoms match h at positions q .. q + Len(atoms) - 1
atomsMatchAt(h, atoms, q) ==
    /\ q + Len(atoms) - 1 <= Len(h)
    /\ \A i \in 1..Len(atoms) :
          IF atoms[i].any THEN h[q + i - 1] # "LF"
          ELSE h[q + i - 1] = atoms[i].ch

\* (mutant) the suffix repeats the vowel the target ends in
stretchRunOwnVowel(h, p) ==
    IF p > 1 /\ h[p - 1] \in {"a", "e", "i", "o", "u"}
    THEN LET runs == {k \in 0..(Len(h) - p + 1) :
                         \A i \in p..(p + k - 1) : h[i] = h[p - 1]}
         IN  CHOOSE k \in runs : \A j \in runs : j <= k
    ELSE 0

RECURSIVE stretchRun(_, _)
\* the length of the run of the letter e of "(e+)?" from position p on
stretchRun(h, p) ==
    IF p <= Len(h) /\ h[p] = "e" THEN 1 + stretchRun(h, p + 1) ELSE 0

\* "(e+)?" when allowStretch, "" otherwise: the greatest suffix length the
\* pattern may take at position p
stretch(h, p, allowStretch) == IF allowStretch THEN stretchRun(h, p) ELSE 0

\* (mutant) no lookahead after the match
lookaheadNone(h, e) == TRUE

\* (?=\s|$) at position e (the position after the match)
lookahead(h, e) == e > Len(h) \/ h[e] \in WhiteSpace

SetMax(S) == CHOOSE x \in S : \A y \in S : y <= x

\* `${escapeRegExp(t)}${stretch}` tried at position q: the position after
\* the match the engine settles on (the longest suffix first, backing off
\* while the whole-word lookahead fails), 0 when there is none.
coreEnd(h, atoms, q, wholeWord, allowStretch) ==
    IF ~atomsMatchAt(h, atoms, q) THEN 0
    ELSE LET base == q + Len(atoms)
             ends == {base + k : k \in 0..stretch(h, base, allowStretch)}
             ok   == {e \in ends : ~wholeWord \/ lookahead(h, e)}
         IN  IF ok = {} THEN 0 ELSE SetMax(ok)

\* the regular expression tried at position p: (^|\s) first takes the
\* start of the text, then one white-space character
matchAt(h, atoms, p, wholeWord, allowStretch) ==
    IF ~wholeWord THEN coreEnd(h, atoms, p, FALSE, allowStretch)
    ELSE IF p = 1 /\ coreEnd(h, atoms, 1, TRUE, allowStretch) # 0
         THEN coreEnd(h, atoms, 1, TRUE, allowStretch)
         ELSE IF p <= Len(h) /\ h[p] \in WhiteSpace
              THEN coreEnd(h, atoms, p + 1, TRUE, allowStretch)
              ELSE 0

RECURSIVE scanMatchesOverlapping(_, _, _, _, _)
\* (mutant) the scan resumes one character after the start of a match
scanMatchesOverlapping(h, atoms, p, wholeWord, allowStretch) ==
    IF p > Len(h) + 1 THEN 0
    ELSE (IF matchAt(h, atoms, p, wholeWord, allowStretch) = 0
          THEN 0 ELSE 1)
         + scanMatchesOverlapping(h, atoms, p + 1, wholeWord,
                                  allowStretch)

RECURSIVE scanMatches(_, _, _, _, _)
\* h.match(re) with the g flag: the number of matches from lastIndex p
scanMatches(h, atoms, p, wholeWord, allowStretch) ==
    IF p > Len(h) + 1 THEN 0
    ELSE LET e == matchAt(h, atoms, p, wholeWord, allowStretch)
         IN  IF e = 0
             THEN scanMatches(h, atoms, p + 1, wholeWord, allowStretch)
             ELSE 1 + scanMatches(h, atoms, IF e = p THEN p + 1 ELSE e,
                                  wholeWord, allowStretch)

\* (mutant) no early return for an empty target
countWordNoGuard(text, targetRaw, wholeWord, allowStretch) ==
    scanMatches(normalize(text),
                literalAtoms(escapeRegExp(normalize(targetRaw))), 1,
                wholeWord, allowStretch)

countWord(text, targetRaw, wholeWord, allowStretch) ==
    LET h == normalize(text)
        t == normalize(targetRaw)
    IN  IF t = <<>> THEN 0
        ELSE scanMatches(h, literalAtoms(escapeRegExp(t)), 1,
                         wholeWord, allowStretch)

\* ---------------------------------------------------------------------
\* The Page component: inputs
\* ---------------------------------------------------------------------

\* greatest length of finalTranscript the model follows
MaxFinalLen == 11

\* greatest number of restart timeouts pending at once
MaxTimers == 2

\* greatest number of results in one SpeechRecognitionEvent
MaxResults == 2

\* the default target, useState("brate")
DefaultTarget == <<"b", "r", "a", "t", "e">>

\* the texts the user may type into the target input
Targets == {DefaultTarget, <<>>}

\* the transcripts the recognizer may produce
Transcript1 == <<"b", "r", "a", "t", "e">>
Transcript2 == <<"B", "r", "a", "t", "e", "e", ",">>

\* the alternative lists of a final result, the best alternative first
AltLists == {<<Transcript1>>, <<Transcript2, Transcript1>>}

\* the alternative lists of a result that is not final
InterimAltLists == {<<Transcript2, Transcript1>>}

\* SpeechRecognitionResult
Results ==
    [alts : AltLists, isFinal : {TRUE}]
        \cup [alts : InterimAltLists, isFinal : {FALSE}]

\* SpeechRecognitionEvent: the result list and resultIndex (from 0).
\* The recognizer lists the final results it has returned first and its
\* interim results after them.
Events ==
    UNION {[results : {rs \in [1..n -> Results] :
                          \A i, j \in 1..n :
                              (i < j /\ rs[j].isFinal) => rs[i].isFinal},
            resultIndex : 0..(n - 1)] : n \in 1..MaxResults}

\* event.error
ErrorKinds == {"not-allowed", "no-speech", "audio-capture", "network", "other"}

\* ---------------------------------------------------------------------
\* The Page component: state
\* ---------------------------------------------------------------------

VARIABLES
    supported,        \* useState: a recognizer was constructed
    isMobile,         \* the device class read from navigator.userAgent
    listening,        \* useState
    target,           \* useState
    strictWord,       \* useState
    allowStretch,     \* useState
    count,            \* useState
    liveInterim,      \* useState
    finalTranscript,  \* useState
    recContinuous,    \* rec.continuous
    recInterim,       \* rec.interimResults
    recState,         \* the recognizer: "idle", "running", "stopping"
                      \* (stop() called, end not yet delivered), "errored"
                      \* (error delivered, end not yet delivered)
    handlers,         \* the target and flags the closures assigned to
                      \* rec.onresult by start() hold
    timers,           \* the restart timeouts pending
    lastOp,           \* history: the handler that ran last ("config" for
                      \* the three inputs, "interim" for onresult with
                      \* no final result, "startFailed" and
                      \* "restartFailed" when rec.start() threw)
    halt,             \* history: what ended the session since the last
                      \* start(): "none", "error", or "stop:" and the
                      \* state stop() was called in
    lastEvent,        \* history, kept in DesktopSpec: the event the
                      \* last step handled, when it was rec.onresult
    input,            \* the arguments of the calls of normalize and
                      \* countWord made outside the component
    outs              \* what those calls returned, in order

vars ==
    <<supported, isMobile, listening, target, strictWord, allowStretch,
      count, liveInterim, finalTranscript, recContinuous, recInterim,
      recState, handlers, timers, lastOp, halt, lastEvent, input, outs>>

config == <<target, strictWord, allowStretch>>
device == <<supported, isMobile, recContinuous, recInterim>>
transcript == <<count, liveInterim, finalTranscript>>
session == <<listening, recState, handlers, timers>>
calls == <<input, outs>>
page ==
    <<device, config, transcript, session, lastOp, halt, lastEvent>>

\* the states of the session, read from the component's state
Listening == listening
Restarting == ~listening /\ timers > 0
Idle == ~listening /\ timers = 0

SessionState ==
    IF Listening THEN "Listening"
    ELSE IF Restarting THEN "Restarting" ELSE "Idle"

\* rec.onresult, rec.onerror and rec.onend before the first start()
NoHandlers ==
    [installed |-> FALSE, target |-> <<>>, strictWord |-> FALSE,
     allowStretch |-> FALSE]

\* no event handled, no call made
NoEvent == [results |-> <<>>, resultIndex |-> 0]
NoInput ==
    [text |-> <<>>, targetRaw |-> <<>>, wholeWord |-> FALSE,
     allowStretch |-> FALSE]

\* getSpeechRecognition and the mount effect
pageInit ==
    /\ supported \in BOOLEAN
    /\ isMobile \in BOOLEAN
    /\ recContinuous = ~isMobile
    /\ recInterim = ~isMobile
    /\ listening = FALSE
    /\ target = DefaultTarget
    /\ strictWord = TRUE
    /\ allowStretch = TRUE
    /\ count = 0
    /\ liveInterim = <<>>
    /\ finalTranscript = <<>>
    /\ recState = "idle"
    /\ handlers = NoHandlers
    /\ timers = 0
    /\ lastOp = "mount"
    /\ halt = "none"
    /\ lastEvent = NoEvent

\* the page as mounted; normalize and countWord are called by its
\* handlers only
Init == pageInit /\ input = NoInput /\ outs = <<>>

\* ---------------------------------------------------------------------
\* The Page component: handlers
\* ---------------------------------------------------------------------

\* (mutant) the effect's dependency list without finalTranscript
recomputeEffectNoFinalDep(oldDeps, newDeps, cnt) ==
    IF SubSeq(newDeps, 1, 3) # SubSeq(oldDeps, 1, 3)
    THEN countWord(newDeps[4], newDeps[1], newDeps[2], newDeps[3])
    ELSE cnt

\* the recompute effect, run after a render in which one of its
\* dependencies [target, strictWord, allowStretch, finalTranscript]
\* changed; cnt is the count the handler left
recomputeEffect(oldDeps, newDeps, cnt) ==
    IF newDeps # oldDeps
    THEN countWord(newDeps[4], newDeps[1], newDeps[2], newDeps[3])
    ELSE cnt

deps == <<target, strictWord, allowStretch, finalTranscript>>

\* rec.start() throws InvalidStateError unless the recognizer is idle
startThrows == recState # "idle"

\* (mutant) the catch branch clears the listening flag
tryStartCatchResets(done, failed) ==
    IF startThrows
    THEN UNCHANGED recState /\ listening' = FALSE /\ lastOp' = failed
    ELSE recState' = "running" /\ listening' = TRUE /\ lastOp' = done

\* try { rec.start(); setListening(true) } catch { console.error(...) }
\* lastOp takes failed when the catch branch ran
\* (mutant) setListening(true) after the try statement, not inside it
tryStartFlagAfterTry(done, failed) ==
    IF startThrows
    THEN UNCHANGED recState /\ listening' = TRUE /\ lastOp' = failed
    ELSE recState' = "running" /\ listening' = TRUE /\ lastOp' = done

tryStart(done, failed) ==
    IF startThrows
    THEN UNCHANGED <<recState, listening>> /\ lastOp' = failed
    ELSE recState' = "running" /\ listening' = TRUE /\ lastOp' = done

\* the start callback (the Start button).  The button's disabled
\* attribute follows the last committed render, so it is no guard of the
\* callback: a click may be dispatched before the render that follows
\* setListening.
start ==
    IF ~supported
       THEN /\ lastOp' = "start"
            /\ lastEvent' = NoEvent
            /\ UNCHANGED <<calls, device, config, transcript, session,
                           halt>>
       ELSE /\ liveInterim' = <<>>
            /\ handlers' = [installed |-> TRUE, target |-> target,
                            strictWord |-> strictWord,
                            allowStretch |-> allowStretch]
            /\ tryStart("start", "startFailed")
            /\ halt' = "none"
            /\ lastEvent' = NoEvent
            /\ UNCHANGED <<calls, device, config, count, finalTranscript,
                           timers>>

\* the stop callback (the Stop button):
\* try { recognitionRef.current?.stop() } catch {}
stop ==
    /\ recState' = IF supported /\ recState = "running"
                   THEN "stopping" ELSE recState
    /\ listening' = FALSE
    /\ lastOp' = "stop"
    /\ halt' = IF Idle THEN halt ELSE "stop:" \o SessionState
    /\ lastEvent' = NoEvent
    /\ UNCHANGED <<calls, device, config, transcript, handlers, timers>>

\* (mutant) Reset zeroes the count and keeps the transcript
resetAllKeepsTranscript ==
    /\ UNCHANGED <<finalTranscript, liveInterim>>
    /\ UNCHANGED config
    /\ count' = recomputeEffect(deps, deps', 0)
    /\ lastOp' = "resetAll"
    /\ lastEvent' = NoEvent
    /\ UNCHANGED <<calls, device, session, halt>>

\* the Reset button
resetAll ==
    /\ finalTranscript' = <<>>
    /\ liveInterim' = <<>>
    /\ UNCHANGED config
    /\ count' = recomputeEffect(deps, deps', 0)
    /\ lastOp' = "resetAll"
    /\ lastEvent' = NoEvent
    /\ UNCHANGED <<calls, device, session, halt>>

\* res[0]?.transcript ?? ""
bestTranscript(res) == IF res.alts = <<>> THEN <<>> ELSE res.alts[1]

RECURSIVE collectAll(_, _, _)
\* (mutant) the loop without the test of res.isFinal
collectAll(results, i, final) ==
    IF i > Len(results) THEN <<>>
    ELSE bestTranscript(results[i]) \o <<" ">>
             \o collectAll(results, i + 1, final)

\* (mutant) the loop runs from index 0, not from event.resultIndex
collectFromStart(results, i, final) ==
    LET wanted(res) == res.isFinal = final
        kept == SelectSeq(results, wanted)
    IN  flatten([k \in DOMAIN kept |->
                    bestTranscript(kept[k]) \o <<" ">>])

RECURSIVE collect(_, _, _)
\* the loop of onresult from index i (from 1) on: the text gathered from
\* the results whose isFinal is final
collect(results, i, final) ==
    IF i > Len(results) THEN <<>>
    ELSE (IF results[i].isFinal = final
          THEN bestTranscript(results[i]) \o <<" ">>
          ELSE <<>>) \o collect(results, i + 1, final)

\* (mutant) the updater drops the previous transcript
appendFinalOverwrite(prev, finalized) == trim(finalized)

\* setFinalTranscript((prev) => (prev + " " + finalized).trim())
appendFinal(prev, finalized) == trim(prev \o <<" ">> \o finalized)

\* countWord(finalized, target, {wholeWord: strictWord, allowStretch})
\* with the values the closure holds
delta(finalized) ==
    countWord(finalized, handlers.target, handlers.strictWord,
              handlers.allowStretch)

\* the event holds a final result at resultIndex or after it
hasFinal(event) ==
    \E i \in (event.resultIndex + 1)..Len(event.results) :
        event.results[i].isFinal

\* rec.onresult
handleResult(event) ==
    /\ supported
    /\ handlers.installed
    /\ recState \in {"running", "stopping"}
    /\ recInterim \/ \A i \in DOMAIN event.results : event.results[i].isFinal
    /\ LET interim == collect(event.results, event.resultIndex + 1, FALSE)
           finalized == collect(event.results, event.resultIndex + 1, TRUE)
           handled == IF finalized # <<>> /\ delta(finalized) > 0
                      THEN count + delta(finalized)
                      ELSE count
       IN  /\ liveInterim' = trim(interim)
           /\ finalTranscript' = IF finalized # <<>>
                                 THEN appendFinal(finalTranscript, finalized)
                                 ELSE finalTranscript
           /\ Len(finalTranscript') <= MaxFinalLen
           /\ UNCHANGED config
           /\ count' = recomputeEffect(deps, deps', handled)
           /\ lastOp' = IF hasFinal(event) THEN "onresult" ELSE "interim"
    /\ UNCHANGED <<calls, device, session, halt>>

\* rec.onresult, the event not kept
onresult(event) == handleResult(event) /\ lastEvent' = NoEvent

\* rec.onresult, the event kept in lastEvent
onresultLogged(event) == handleResult(event) /\ lastEvent' = event

\* rec.onerror; the recognizer delivers end after it
onerror(error) ==
    /\ supported
    /\ handlers.installed
    /\ recState \in {"running", "stopping"}
    /\ recState' = "errored"
    /\ listening' = FALSE
    /\ lastOp' = "onerror"
    /\ halt' = "error"
    /\ lastEvent' = NoEvent
    /\ UNCHANGED <<calls, device, config, transcript, handlers, timers>>

\* (mutant) the restart is scheduled on every device
restartScheduledAlways == TRUE

\* (mutant) the restart is scheduled for a continuous recognizer only
restartScheduledContinuous == isMobile /\ recContinuous = TRUE

\* if (isMobile && rec.continuous === false) setTimeout(..., 100)
restartScheduled == isMobile /\ recContinuous = FALSE

\* rec.onend
onend ==
    /\ supported
    /\ handlers.installed
    /\ recState # "idle"
    /\ recState' = "idle"
    /\ listening' = FALSE
    /\ IF restartScheduled
       THEN timers < MaxTimers /\ timers' = timers + 1
       ELSE timers' = timers
    /\ lastOp' = "onend"
    /\ lastEvent' = NoEvent
    /\ UNCHANGED <<calls, device, config, transcript, handlers, halt>>

\* the callback of setTimeout in onend
restartTimeout ==
    /\ timers > 0
    /\ timers' = timers - 1
    /\ tryStart("restartTimeout", "restartFailed")
    /\ lastEvent' = NoEvent
    /\ UNCHANGED <<calls, device, config, transcript, handlers, halt>>

\* the target input: onChange={(e) => setTarget(e.target.value)}
setTarget(value) ==
    /\ value # target
    /\ target' = value
    /\ UNCHANGED <<strictWord, allowStretch>>
    /\ UNCHANGED <<finalTranscript, liveInterim>>
    /\ count' = recomputeEffect(deps, deps', count)
    /\ lastOp' = "config"
    /\ lastEvent' = NoEvent
    /\ UNCHANGED <<calls, device, session, halt>>

\* the "Whole word only" checkbox: setStrictWord((v) => !v)
setStrictWord ==
    /\ strictWord' = ~strictWord
    /\ UNCHANGED <<target, allowStretch>>
    /\ UNCHANGED <<finalTranscript, liveInterim>>
    /\ count' = recomputeEffect(deps, deps', count)
    /\ lastOp' = "config"
    /\ lastEvent' = NoEvent
    /\ UNCHANGED <<calls, device, session, halt>>

\* the "Allow stretched" checkbox: setAllowStretch((v) => !v)
setAllowStretch ==
    /\ allowStretch' = ~allowStretch
    /\ UNCHANGED <<target, strictWord>>
    /\ UNCHANGED <<finalTranscript, liveInterim>>
    /\ count' = recomputeEffect(deps, deps', count)
    /\ lastOp' = "config"
    /\ lastEvent' = NoEvent
    /\ UNCHANGED <<calls, device, session, halt>>

Next ==
    \/ start
    \/ stop
    \/ resetAll
    \/ \E event \in Events : onresult(event)
    \/ \E error \in ErrorKinds : onerror(error)
    \/ onend
    \/ restartTimeout
    \/ \E value \in Targets : setTarget(value)
    \/ setStrictWord
    \/ setAllowStretch

Spec == Init /\ [][Next]_vars

\* the timer of setTimeout fires
FairSpec == Spec /\ WF_vars(restartTimeout)

\* The page on a desktop device, where the recognizer is continuous and
\* delivers interim results; onend schedules no timeout there.  Every
\* event handled is kept in lastEvent.
DesktopInit == Init /\ supported /\ ~isMobile

DesktopNext ==
    \/ start
    \/ stop
    \/ resetAll
    \/ \E event \in Events : onresultLogged(event)
    \/ \E error \in ErrorKinds : onerror(error)
    \/ onend
    \/ \E value \in Targets : setTarget(value)
    \/ setStrictWord
    \/ setAllowStretch

DesktopSpec == DesktopInit /\ [][DesktopNext]_vars

\* ---------------------------------------------------------------------
\* normalize and countWord called on their own
\* ---------------------------------------------------------------------

\* the longest text given to normalize, in characters
MaxTextLen == 2

\* the number of times normalize is applied to its own result
MaxCalls == 2

\* the most words in a text given to countWord
MaxWords == 2

\* one or more characters of every class normalize treats apart: mapped
\* Cyrillic (one letter, a digraph, a letter with a caron), Cyrillic
\* outside the table (plain, and precomposed of a mapped letter and a
\* mark), Latin with and without diacritics, a digit, punctuation, the
\* apostrophe, the spacing circumflex, white space
NormChars ==
    {"U0431", "U0409", "U0447", "U044F", "U0439", "U0451", "a", "B",
     "U010D", "U0111", "1", ",", "'", "^", " ", "TAB"}

NormTexts == UNION {[1..n -> NormChars] : n \in 0..MaxTextLen}

\* the words of the texts given to countWord
CountWords ==
    {<<"b", "r", "a", "t", "e">>,
     <<"B", "r", "a", "t", "e", ",">>,
     <<"b", "r", "a", "t", "e", "e", "e">>,
     <<"b", "r", "a", "t", "e", "s", "t", "v", "o">>,
     <<"b", "r", "a", "t", "a", "a", "a">>,
     <<"b", "r", "a", "t", "a", "e">>,
     <<"a", "a", "a">>}

\* words separated by one space
joinWords(ws) == trim(flatten([i \in DOMAIN ws |-> ws[i] \o <<" ">>]))

CountTexts ==
    {joinWords(ws) : ws \in UNION {[1..n -> CountWords] : n \in 0..MaxWords}}

\* the targets given to countWord: words ending in e and in a, a word
\* that overlaps itself, two words, and targets with nothing to match
CountTargets ==
    {<<"b", "r", "a", "t", "e">>,
     <<"b", "r", "a", "t", "a">>,
     <<"a", "a">>,
     <<"b", "r", "a", "t", "e", " ", "b", "r", "a", "t", "e">>,
     <<>>,
     <<" ">>,
     <<"!", "?">>}

\* the page is not mounted on a device with a recognizer
NormInit ==
    /\ pageInit /\ ~supported /\ ~isMobile
    /\ input \in [text : NormTexts, targetRaw : {<<>>},
                  wholeWord : {FALSE}, allowStretch : {FALSE}]
    /\ outs = <<>>

CountInit ==
    /\ pageInit /\ ~supported /\ ~isMobile
    /\ input \in [text : CountTexts, targetRaw : CountTargets,
                  wholeWord : BOOLEAN, allowStretch : BOOLEAN]
    /\ outs = <<>>

\* normalize(input.text), then normalize of what it returned
normalizeCall ==
    /\ Len(outs) < MaxCalls
    /\ outs' = Append(outs, normalize(IF outs = <<>> THEN input.text
                                      ELSE outs[Len(outs)]))
    /\ UNCHANGED <<input, page>>

\* countWord(text, targetRaw, { wholeWord, allowStretch })
countWordCall ==
    /\ outs = <<>>
    /\ outs' = <<countWord(input.text, input.targetRaw, input.wholeWord,
                           input.allowStretch)>>
    /\ UNCHANGED <<input, page>>

NormNext == normalizeCall
CountNext == countWordCall

NormSpec == NormInit /\ [][NormNext]_vars
CountSpec == CountInit /\ [][CountNext]_vars

\* ---------------------------------------------------------------------
\* Properties
\* ---------------------------------------------------------------------

\* C1: after any sequence of final-chunk appends, configuration changes
\* and resets, count is countWord over the whole finalTranscript with the
\* current target and flags.
CountIsFreshCount ==
    count = countWord(finalTranscript, target, strictWord, allowStretch)

\* C1 witness: a second final chunk was appended by a handler whose
\* closure holds a configuration that was changed since start()
CountIsFreshCountWitness ==
    /\ lastOp = "onresult"
    /\ count = 2
    /\ handlers.allowStretch # allowStretch

\* C2 (as claimed): once stop() was called while Restarting, the restart
\* timeout does not run and the session is not listening, until the user
\* calls start() again.
StopCancelsRestart ==
    [][halt' = "stop:Restarting"
          => /\ lastOp' \notin {"restartTimeout", "restartFailed"}
             /\ ~listening']_vars

\* C3 (as claimed): after stop() was called while Listening, onend
\* schedules no restart and only start() makes the session listen again.
NoRestartAfterUserStop ==
    [][halt = "stop:Listening"
          => /\ lastOp' = "onend" => timers' = timers
             /\ listening' => lastOp' = "start"]_vars

\* C4 (as claimed): onerror leaves the session not listening, and after
\* an error only start() makes the session listen again, on any device.
ErrorsAreTerminal ==
    [][/\ lastOp' = "onerror" => ~listening'
       /\ halt = "error" => (listening' => lastOp' = "start")]_vars

\* what start() must leave alone for it to be a no-op of the session
sessionFrame == <<listening, recState, timers, finalTranscript, count>>

endedUnstopped == ~recContinuous /\ lastOp = "onend" /\ halt = "none"

\* C6: on a non-continuous profile, after onend in a session the user has
\* not stopped, a restart is pending (Restarting, the recognizer idle),
\* and the session is eventually listening again.
MobileRestarts ==
    /\ [](endedUnstopped => (Restarting /\ recState = "idle"))
    /\ (endedUnstopped ~> listening)

\* C6 witness: the restart timeout has started the recognizer again
MobileRestartsWitness ==
    /\ ~recContinuous
    /\ lastOp = "restartTimeout"
    /\ listening
    /\ halt = "none"

\* C7: on a continuous profile, onend leaves the session Idle with no
\* restart pending, and only start() makes it listen again.
DesktopEndIsIdle ==
    [][recContinuous
          => /\ lastOp' = "onend" => (~listening' /\ timers' = 0)
             /\ (~listening /\ listening') => lastOp' = "start"]_vars

\* C7 witness: onend was handled while Listening on a continuous profile
DesktopEndIsIdleWitness ==
    recContinuous /\ lastOp = "onend" /\ halt = "none" /\ Idle

\* C8: every handler but resetAll leaves the previous finalTranscript a
\* prefix of the new one.
FinalTextAppendOnly ==
    [][lastOp' # "resetAll"
          => isPrefix(finalTranscript, finalTranscript')]_vars

\* C8 witness: a final chunk was appended to a transcript that was not
\* empty
FinalTextAppendOnlyWitness ==
    lastOp = "onresult" /\ Len(finalTranscript) > Len(Transcript2)

\* the interim texts of the events with no final result
interimTexts ==
    {trim(collect(e.results, e.resultIndex + 1, FALSE)) :
        e \in {ev \in Events : ~hasFinal(ev)}}

\* C9: onresult with no final result from resultIndex on replaces
\* liveInterim and leaves finalTranscript and count as they were.
InterimNotCounted ==
    [][lastOp' = "interim"
          => /\ finalTranscript' = finalTranscript
             /\ count' = count
             /\ liveInterim' \in interimTexts]_vars

\* C9 witness: an interim text that holds the target was handled and
\* nothing is counted
InterimNotCountedWitness ==
    /\ lastOp = "interim"
    /\ countWord(liveInterim, target, strictWord, allowStretch) > 0
    /\ count = 0

\* C10 (as claimed): liveInterim is empty right after start() and right
\* after stop().
InterimClearedByStartAndStop ==
    lastOp \in {"start", "startFailed", "stop"} => liveInterim = <<>>

\* C11: after Reset the final transcript is empty, the interim text is
\* empty and the count is 0, whatever they were and whatever the
\* configuration and the session state are.
ResetClearsAll ==
    lastOp = "resetAll"
        => finalTranscript = <<>> /\ liveInterim = <<>> /\ count = 0

\* Reset pressed while the recognizer runs with a target that matches
ResetClearsAllWitness ==
    /\ lastOp = "resetAll"
    /\ listening /\ recState = "running"
    /\ normalize(target) # <<>>
    /\ count = 0

\* C12: normalize is idempotent: normalize applied to what normalize
\* returned returns it unchanged, for texts of every character class
\* (Cyrillic in and outside the table, precomposed letters, Latin with
\* and without diacritics, digits, punctuation, white space).
NormalizeIdempotent == Len(outs) >= 2 => outs[2] = outs[1]

\* what a call of countWord was given, normalized, and what it returned
called == outs # <<>>
hay == normalize(input.text)
needle == normalize(input.targetRaw)
returned == outs[1]

Vowels == {"a", "e", "i", "o", "u"}
allRun(s, ch) == \A i \in DOMAIN s : s[i] = ch
after(w, t) == SubSeq(w, Len(t) + 1, Len(w))
oneWord(s) == s # <<>> /\ \A i \in DOMAIN s : s[i] # " "

\* C13: with allowStretch the suffix accepted after the literal target
\* is a run of the target's own trailing vowel, it is optional, and
\* without allowStretch no suffix is accepted: a one-word text that
\* starts with the target counts 1 whole-word exactly if what follows
\* the target is empty or, with allowStretch, a run of that vowel.
StretchIsOwnTrailingVowel ==
    (called /\ input.wholeWord /\ oneWord(hay) /\ oneWord(needle)
            /\ isPrefix(needle, hay))
        => LET last == needle[Len(needle)]
               accepted ==
                   \/ after(hay, needle) = <<>>
                   \/ /\ input.allowStretch
                      /\ last \in Vowels
                      /\ allRun(after(hay, needle), last)
           IN  returned = IF accepted THEN 1 ELSE 0

\* C13 (amended): the suffix accepted after the literal target is a run
\* of the letter e whatever letter the target ends in, it is optional,
\* and without allowStretch no suffix is accepted: a one-word text that
\* starts with the target counts 1 whole-word exactly if what follows
\* the target is empty or, with allowStretch, a run of e.
StretchIsRunOfE ==
    (called /\ input.wholeWord /\ oneWord(hay) /\ oneWord(needle)
            /\ isPrefix(needle, hay))
        => LET accepted ==
                   \/ after(hay, needle) = <<>>
                   \/ input.allowStretch /\ allRun(after(hay, needle), "e")
           IN  returned = IF accepted THEN 1 ELSE 0

\* countWord("bratae", "brata", {allowStretch: true}) is 1
StretchIsRunOfEWitness ==
    /\ called
    /\ input.wholeWord /\ input.allowStretch
    /\ needle = <<"b", "r", "a", "t", "a">>
    /\ hay = <<"b", "r", "a", "t", "a", "e">>
    /\ returned = 1

RECURSIVE tokens(_)
\* the words of a normalized text
tokens(h) ==
    IF h = <<>> THEN <<>>
    ELSE LET ends == {k \in DOMAIN h : h[k] = " "} \cup {Len(h) + 1}
             k == CHOOSE x \in ends : \A y \in ends : x <= y
         IN  <<SubSeq(h, 1, k - 1)>> \o tokens(SubSeq(h, k + 1, Len(h)))

\* the word is the target, followed by e's when stretching is allowed
isUnit(w, t, allowStretching) ==
    /\ isPrefix(t, w)
    /\ after(w, t) = <<>> \/ (allowStretching /\ allRun(after(w, t), "e"))

Bratestvo == <<"b", "r", "a", "t", "e", "s", "t", "v", "o">>
Brate == <<"b", "r", "a", "t", "e">>
Brateee == <<"b", "r", "a", "t", "e", "e", "e">>

\* C14: with wholeWord every counted match is preceded by the start of
\* the text or white space and followed by white space or the end of the
\* text: for a one-word target the count is the number of words of the
\* text that are the match unit, so brate inside bratestvo counts 0;
\* without wholeWord that occurrence counts 1.
WholeWordBounded ==
    called =>
        /\ (input.wholeWord /\ oneWord(needle))
               => returned =
                      Cardinality({i \in DOMAIN tokens(hay) :
                          isUnit(tokens(hay)[i], needle,
                                 input.allowStretch)})
        /\ (hay = Bratestvo /\ needle = Brate)
               => returned = IF input.wholeWord THEN 0 ELSE 1

\* countWord("bratestvo brate", "brate", {wholeWord: true}) is 1
WholeWordBoundedWitness ==
    /\ called
    /\ input.wholeWord
    /\ hay = Bratestvo \o <<" ">> \o Brate
    /\ needle = Brate
    /\ returned = 1

\* where the literal target occurs in the text
occurrences(h, t) ==
    {p \in 1..(Len(h) - Len(t) + 1) : SubSeq(h, p, p + Len(t) - 1) = t}

\* the most occurrences no two of which overlap
maxDisjoint(h, t) ==
    SetMax({Cardinality(S) : S \in
        {S \in SUBSET occurrences(h, t) :
            \A p, q \in S : p < q => p + Len(t) <= q}})

\* C15: countWord returns the number of non-overlapping matches of one
\* scan from left to right: without wholeWord and without stretching
\* that is the greatest number of occurrences of the target no two of
\* which overlap, stretching never adds a match (a stretched word is
\* counted once), and "brateee brate" counts 2 for brate whole-word when
\* stretching is allowed and 1 when it is not.
NonOverlappingScan ==
    (called /\ needle # <<>>) =>
        /\ (~input.wholeWord /\ ~input.allowStretch)
               => returned = maxDisjoint(hay, needle)
        /\ ~input.wholeWord => returned <= maxDisjoint(hay, needle)
        /\ (hay = Brateee \o <<" ">> \o Brate /\ needle = Brate
                /\ input.wholeWord)
               => returned = IF input.allowStretch THEN 2 ELSE 1

\* countWord("brateee brate", "brate", {allowStretch: true}) is 2
NonOverlappingScanWitness ==
    /\ called
    /\ hay = Brateee \o <<" ">> \o Brate
    /\ needle = Brate
    /\ input.wholeWord /\ input.allowStretch
    /\ returned = 2

\* C16: countWord returns 0 for every text and every setting of the two
\* flags when the target normalizes to the empty string (an empty target,
\* white space only, punctuation only).
EmptyTargetCountsZero == (called /\ needle = <<>>) => returned = 0

\* countWord("brate brate", "!?", ...) is 0
EmptyTargetCountsZeroWitness ==
    /\ called
    /\ input.targetRaw = <<"!", "?">>
    /\ hay = Brate \o <<" ">> \o Brate
    /\ returned = 0

\* the results of an event from resultIndex on, and of those the ones
\* whose isFinal is final, in index order
fromResultIndex(event) ==
    SubSeq(event.results, event.resultIndex + 1, Len(event.results))
resultsOf(event, final) ==
    LET wanted(res) == res.isFinal = final
    IN  SelectSeq(fromResultIndex(event), wanted)

\* the first transcripts of the results, a space after each
firstTranscripts(rs) ==
    flatten([k \in DOMAIN rs |-> rs[k].alts[1] \o <<" ">>])

IncrementalEqualsRecompute ==
    [][lastOp' = "onresult"
          => delta(collect(lastEvent'.results,
                           lastEvent'.resultIndex + 1, TRUE))
                 = countWord(finalTranscript', target, strictWord,
                             allowStretch)
                   - countWord(finalTranscript, target, strictWord,
                               allowStretch)]_vars

\* C19: when the rec.start() of the automatic restart throws, the
\* failure is caught, no further restart is scheduled for it and the
\* session is left not listening.
RestartFailureSettlesIdle ==
    [][lastOp' = "restartFailed"
          => timers' = timers - 1 /\ ~listening']_vars

\* C20: listening is true only while the recognizer has been started
\* and has not delivered end for that run, under every interleaving of
\* the handlers and with several timeouts pending; a start() or a
\* restart whose rec.start() threw never sets it to true.
ListeningOnlyWhileStarted ==
    /\ [](listening => recState # "idle")
    /\ [][lastOp' \in {"startFailed", "restartFailed"}
             => (listening' => listening)]_vars

\* a restart failed while not listening with another timeout pending:
\* the flag stayed false
ListeningOnlyWhileStartedWitness ==
    /\ lastOp = "restartFailed"
    /\ ~listening
    /\ recState \in {"stopping", "errored"}
    /\ timers >= 1

====
